---- MODULE Spec2Model ----
(***************************************************************************)
(* Inventory ledger of src/server.js: the record collection persisted in   *)
(* inventory.xlsx, the Component ID generator, the three-key record match  *)
(* and the submit / approve / reject / delete / update request handlers    *)
(* and the pending list.                                                   *)
(*                                                                         *)
(* Strings that the code inspects (Component ID, Issue No, Storage No and  *)
(* request identifiers) are sequences of one-character strings, so that    *)
(* the regular expression, parseInt and padStart of generateComponentId    *)
(* are computed and not assumed.  The empty sequence stands for every      *)
(* falsy value of such a field (undefined, null, '').  Opaque strings      *)
(* (names, dates, reasons) are TLA+ strings, "" standing for absent.       *)
(*                                                                         *)
(* The server is one Node.js process: a handler runs without interruption  *)
(* from one await to the next.  POST /api/issue and PUT /api/components    *)
(* await pdfFile.mv() between their load and their save; every other       *)
(* handler of the ledger has no await after its load.                      *)
(***************************************************************************)
EXTENDS Integers, Sequences, FiniteSets, TLC

VARIABLES
    file,     \* inventory.xlsx: [exists, parses, rows]; parses: xlsx.readFile
              \* can read it; rows: the records written to it
    proc,     \* the request handlers suspended at an await, one slot each
    resp,     \* the HTTP response sent by the last step (NoResp when none)
    everIds,  \* history: every Component ID that was ever persisted
    stale,    \* history of the last step, a save made from a snapshot loaded
              \* before an await: minted, the Component IDs it gave to new
              \* records although records of the persisted collection carry
              \* them; revived, the Component IDs of the snapshot's records
              \* that had been removed from the persisted collection
    updateId, \* history: req.params.identifier of the PUT request that the
              \* last step received, NULL when the step served another request
    users,    \* users.json and admin-users.json: for each scope (isAdmin) the
              \* user objects of the file
    reg,      \* the signup handlers suspended at an await, one slot each
    auth,     \* the HTTP response of the last signup or login step
    attempts, \* history: the scope, lower-cased username and password of
              \* every call of registerUser
    succeeded \* history: the registrations that reported success, in order

ledgerVars == <<file, proc, resp, everIds, stale, updateId>>
authVars == <<users, reg, auth, attempts, succeeded>>
vars == <<file, proc, resp, everIds, stale, updateId,
          users, reg, auth, attempts, succeeded>>

----------------------------------------------------------------------------
(* Bounds *)

MaxRecords == 2      \* a request is not started when it could exceed this
MaxBatch == 2        \* line items of one submission
MaxId == 2           \* no request is started that could mint a larger suffix
NProcs == 1          \* handlers that can be suspended at the same time
MaxConcRecords == 2  \* as MaxRecords, where handlers can be suspended
MaxConcBatch == 2    \* as MaxBatch, where handlers can be suspended
MaxFormRecords == 2  \* as MaxRecords, where transaction keys may be missing
MaxFormBatch == 2    \* as MaxBatch, where transaction keys may be missing
MaxFaultRecords == 2 \* as MaxRecords, where the write of the file can go wrong
MaxFaultBatch == 2   \* as MaxBatch, where the write of the file can go wrong
MaxGenRecords == 2   \* records of a collection the generator is applied to
MaxDamageRecords == 2  \* as MaxRecords, where the file can be damaged
MaxDamageBatch == 2    \* as MaxBatch, where the file can be damaged
NRegs == 2            \* signup handlers that can be suspended at the same time
MaxUsers == 2         \* a signup is not started when its file holds this many users
MaxSuccesses == 2     \* no signup is started after this many reported success

Procs == 1..NProcs

----------------------------------------------------------------------------
(* Strings *)

NULL == <<>>

Truthy(s) == s # NULL

DigitChars == <<"0", "1", "2", "3", "4", "5", "6", "7", "8", "9">>

IsDigit(c) == \E d \in 1..10 : DigitChars[d] = c

DigitVal(c) == (CHOOSE d \in 1..10 : DigitChars[d] = c) - 1

CmpPrefix == <<"C", "M", "P", "-">>

\* the longest run of digits of s that starts at position i
RECURSIVE DigitRun(_, _)
DigitRun(s, i) ==
    IF i <= Len(s) /\ IsDigit(s[i]) THEN <<s[i]>> \o DigitRun(s, i + 1) ELSE <<>>

\* parseInt(digits), base 10
RECURSIVE ParseInt(_)
ParseInt(ds) ==
    IF ds = <<>> THEN 0
    ELSE 10 * ParseInt(SubSeq(ds, 1, Len(ds) - 1)) + DigitVal(ds[Len(ds)])

\* (n).toString()
RECURSIVE NumToString(_)
NumToString(n) ==
    IF n < 10 THEN <<DigitChars[n + 1]>>
    ELSE NumToString(n \div 10) \o <<DigitChars[(n % 10) + 1]>>

\* s.padStart(w, '0')
RECURSIVE PadStart(_, _)
PadStart(s, w) == IF Len(s) >= w THEN s ELSE PadStart(<<"0">> \o s, w)

\* str.match(/CMP-(\d+)/): the capture group of the leftmost match, or NULL
\* when there is no match
CmpMatchAt(s, i) ==
    /\ i + 4 <= Len(s)
    /\ SubSeq(s, i, i + 3) = CmpPrefix
    /\ IsDigit(s[i + 4])

CmpMatch(s) ==
    IF \E i \in 1..Len(s) : CmpMatchAt(s, i)
    THEN LET i == CHOOSE j \in 1..Len(s) :
                      CmpMatchAt(s, j) /\ \A k \in 1..(j - 1) : ~CmpMatchAt(s, k)
         IN  DigitRun(s, i + 4)
    ELSE NULL

\* Math.max(0, ...xs)
RECURSIVE Max0(_)
Max0(xs) ==
    IF xs = <<>> THEN 0
    ELSE LET m == Max0(Tail(xs)) IN IF Head(xs) > m THEN Head(xs) ELSE m

\* s.trim() for the one whitespace character the model uses
RECURSIVE TrimStart(_)
TrimStart(s) == IF s # <<>> /\ Head(s) = " " THEN TrimStart(Tail(s)) ELSE s

RECURSIVE TrimEnd(_)
TrimEnd(s) ==
    IF s # <<>> /\ s[Len(s)] = " " THEN TrimEnd(SubSeq(s, 1, Len(s) - 1)) ELSE s

Trim(s) == TrimEnd(TrimStart(s))

----------------------------------------------------------------------------
(* Request inputs *)

KeyA == <<"A">>
KeyCmp == <<"C", "M", "P", "-", "0", "0", "1">>
Cmp2 == <<"C", "M", "P", "-", "0", "0", "2">>

\* identifiers of approve, reject, delete and update requests
Identifiers == {KeyA, KeyCmp, Cmp2}

\* a transaction key that is the name of a property of Object.prototype
KeyValueOf == <<"v", "a", "l", "u", "e", "O", "f">>

\* the property names every object literal inherits from Object.prototype
ObjectPrototypeNames ==
    {KeyValueOf,
     <<"c", "o", "n", "s", "t", "r", "u", "c", "t", "o", "r">>,
     <<"t", "o", "S", "t", "r", "i", "n", "g">>,
     <<"t", "o", "L", "o", "c", "a", "l", "e", "S", "t", "r", "i", "n", "g">>,
     <<"h", "a", "s", "O", "w", "n", "P", "r", "o", "p", "e", "r", "t", "y">>,
     <<"i", "s", "P", "r", "o", "t", "o", "t", "y", "p", "e", "O", "f">>,
     <<"p", "r", "o", "p", "e", "r", "t", "y", "I", "s", "E", "n", "u", "m", "e", "r", "a", "b", "l", "e">>,
     <<"_", "_", "p", "r", "o", "t", "o", "_", "_">>}


\* line items: partNo, and whether an uploaded PDF accompanies the item
PartNos == {<<"P", "1">>}
Components == [partNo : PartNos, hasPdf : BOOLEAN]
NoPdfComponents == [partNo : PartNos, hasPdf : {FALSE}]

RECURSIVE SeqsUpTo(_, _)
SeqsUpTo(S, n) ==
    IF n = 0 THEN {<<>>}
    ELSE LET shorter == SeqsUpTo(S, n - 1)
         IN  shorter \cup {Append(q, x) : q \in {r \in shorter : Len(r) = n - 1}, x \in S}

Approvers == {"admin"}
Signatures == {"sig"}
Reasons == {"damaged"}
Today == "2024-01-01"
PdfPath == "/uploads/SO.pdf"

----------------------------------------------------------------------------
(* Tabular store *)

LoadFilter(item) ==
    \/ Truthy(item.ComponentID) /\ Trim(item.ComponentID) # <<>>
    \/ Truthy(item.PartNo) /\ Trim(item.PartNo) # <<>>

\* a load that reads the records out of a file that does not parse
LoadExcelSyncUnchecked(f) == IF ~f.exists THEN <<>> ELSE SelectSeq(f.rows, LoadFilter)

\* loadExcelSync: the records of the file; a missing file reads as no
\* records, and so does a file that xlsx.readFile cannot parse (the catch
\* block returns [])
LoadExcelSync(f) ==
    IF ~f.exists \/ ~f.parses THEN <<>> ELSE SelectSeq(f.rows, LoadFilter)

\* a load that leaves a missing file missing
FileAfterLoadMissing(f) == f

\* loadExcelSync creates the file when it is missing
FileAfterLoad(f) ==
    IF ~f.exists THEN [exists |-> TRUE, parses |-> TRUE, rows |-> <<>>] ELSE f

\* The worksheet.  A record of the model has every column as a field, and
\* a field without a value holds the empty value of its kind.
CharFields == {"ComponentID", "PartNo", "IssueNo", "StorageNo"}

Absent(field) == IF field \in CharFields THEN NULL ELSE ""

\* the keys of a record that have a value
Keys(item) == {field \in DOMAIN item : item[field] # Absent(field)}

\* xlsx.utils.json_to_sheet(data): one column per key that some record
\* has, one row per record, a cell where the record has a value
JsonToSheet(data) ==
    [header |-> UNION {Keys(data[i]) : i \in 1..Len(data)},
     rows |-> [i \in 1..Len(data) |->
                  [field \in Keys(data[i]) |-> data[i][field]]]]

BlankRow(row) == DOMAIN row = {}

\* a reading that takes the first row below the header for a second header
SheetToJsonFromSecondRow(sheet, fields) ==
    LET filled == SelectSeq(sheet.rows, LAMBDA row : ~BlankRow(row))
    IN  [i \in 1..(IF filled = <<>> THEN 0 ELSE Len(filled) - 1) |->
            [field \in fields |->
                IF field \in DOMAIN filled[i + 1] THEN filled[i + 1][field]
                ELSE Absent(field)]]

\* xlsx.utils.sheet_to_json(ws): one record per row that has a cell, with
\* the keys of its cells; fields: the columns a record of the model has
SheetToJson(sheet, fields) ==
    LET filled == SelectSeq(sheet.rows, LAMBDA row : ~BlankRow(row))
    IN  [i \in 1..Len(filled) |->
            [field \in fields |->
                IF field \in DOMAIN filled[i] THEN filled[i][field]
                ELSE Absent(field)]]

\* the columns of the records of data
Columns(data) == UNION {DOMAIN data[i] : i \in 1..Len(data)}

\* what a reading of the file yields after data was written to it
WrittenRows(data) == SheetToJson(JsonToSheet(data), Columns(data))

\* saveToExcelSync: wr is what xlsx.writeFile did: "ok", the file holds the
\* data; "fail", it threw and the file is as before; "short", it returned
\* but the file holds one row less than the data (a silent truncation, the
\* case the read-back after the write is there to see)
WriteOutcomes == {"ok", "fail", "short"}

FileAfterSave(f, data, wr) ==
    IF wr = "ok" THEN [exists |-> TRUE, parses |-> TRUE, rows |-> WrittenRows(data)]
    ELSE IF wr = "short"
    THEN [exists |-> TRUE, parses |-> TRUE,
          rows |-> IF data = <<>> THEN <<>>
                   ELSE WrittenRows(SubSeq(data, 1, Len(data) - 1))]
    ELSE f

\* the records the verification reads back right after the write
VerifyData(f, data, wr) == FileAfterSave(f, data, wr).rows

\* a save that reports success whatever the write did
SaveToExcelSyncBlind(data, wr) == TRUE

\* the return value of saveToExcelSync: true when nothing threw; the count
\* read back is logged and not compared
SaveToExcelSync(data, wr) == wr # "fail"

----------------------------------------------------------------------------
(* Identifier generator *)

\* a generator that hands out the largest suffix itself, not the one after it
GenerateComponentIdNoIncrement(existingData) ==
    LET withId == SelectSeq(existingData, LAMBDA item : Truthy(item.ComponentID))
        existingIds == [k \in 1..Len(withId) |->
                           LET match == CmpMatch(withId[k].ComponentID)
                           IN  IF match # NULL THEN ParseInt(match) ELSE 0]
        maxId == Max0(existingIds)
    IN  CmpPrefix \o PadStart(NumToString(maxId), 3)

\* a generator that counts on from the last record instead of the largest
\* suffix
GenerateComponentIdFromLast(existingData) ==
    LET match == IF existingData = <<>>
                    \/ ~Truthy(existingData[Len(existingData)].ComponentID)
                 THEN NULL
                 ELSE CmpMatch(existingData[Len(existingData)].ComponentID)
        lastId == IF match # NULL THEN ParseInt(match) ELSE 0
    IN  CmpPrefix \o PadStart(NumToString(lastId + 1), 3)

GenerateComponentId(existingData) ==
    LET withId == SelectSeq(existingData, LAMBDA item : Truthy(item.ComponentID))
        existingIds == [k \in 1..Len(withId) |->
                           LET match == CmpMatch(withId[k].ComponentID)
                           IN  IF match # NULL THEN ParseInt(match) ELSE 0]
        maxId == Max0(existingIds)
    IN  CmpPrefix \o PadStart(NumToString(maxId + 1), 3)

----------------------------------------------------------------------------
(* Record matcher *)

Matches(item, identifier) ==
    LET issueNo == IF Truthy(item.IssueNo) THEN item.IssueNo ELSE NULL
        storageNo == IF Truthy(item.StorageNo) THEN item.StorageNo ELSE NULL
        componentId == IF Truthy(item.ComponentID) THEN item.ComponentID ELSE NULL
    IN  \/ Truthy(item.IssueNo) /\ issueNo = identifier
        \/ Truthy(item.StorageNo) /\ storageNo = identifier
        \/ Truthy(item.ComponentID) /\ componentId = identifier

\* only the first matching record (find in place of a loop over all)
FirstMatchingIndex(data, identifier) ==
    LET all == {i \in 1..Len(data) : Matches(data[i], identifier)}
    IN  {i \in all : \A j \in all : i <= j}

\* a guard on the current status: only Pending records match
MatchingPendingIndices(data, identifier) ==
    {i \in 1..Len(data) : Matches(data[i], identifier) /\ data[i].Status = "Pending"}

MatchingIndices(data, identifier) == {i \in 1..Len(data) : Matches(data[i], identifier)}

\* a filter that drops the first matching record only
RemainingButFirstMatch(data, identifier) ==
    IF MatchingIndices(data, identifier) = {} THEN data
    ELSE LET first == CHOOSE i \in MatchingIndices(data, identifier) :
                          \A j \in MatchingIndices(data, identifier) : i <= j
         IN  [i \in 1..(Len(data) - 1) |-> IF i < first THEN data[i] ELSE data[i + 1]]

RemainingData(data, identifier) ==
    SelectSeq(data, LAMBDA item : ~Matches(item, identifier))

----------------------------------------------------------------------------
(* Records *)

\* a record created already approved
IssueItemApproved(componentId, component, issueNo, pdfFileName) ==
    [ComponentID |-> componentId,
     PartNo |-> component.partNo,
     Type |-> "Issued Component",
     Status |-> "Approved",
     Date |-> Today,
     IssueNo |-> issueNo,
     StorageNo |-> NULL,
     SOPDF |-> pdfFileName,
     ApprovedBy |-> "", ApprovalDate |-> "", ApprovalSignature |-> "",
     RejectionReason |-> "", RejectionDate |-> ""]

IssueItem(componentId, component, issueNo, pdfFileName) ==
    [ComponentID |-> componentId,
     PartNo |-> component.partNo,
     Type |-> "Issued Component",
     Status |-> "Pending",
     Date |-> Today,
     IssueNo |-> issueNo,
     StorageNo |-> NULL,
     SOPDF |-> pdfFileName,
     ApprovedBy |-> "", ApprovalDate |-> "", ApprovalSignature |-> "",
     RejectionReason |-> "", RejectionDate |-> ""]

StorageItem(componentId, component, storageNo) ==
    [ComponentID |-> componentId,
     PartNo |-> component.partNo,
     Type |-> "Stored Component",
     Status |-> "Pending",
     Date |-> Today,
     IssueNo |-> NULL,
     StorageNo |-> storageNo,
     SOPDF |-> "",
     ApprovedBy |-> "", ApprovalDate |-> "", ApprovalSignature |-> "",
     RejectionReason |-> "", RejectionDate |-> ""]

NewItem(kind, componentId, component, key, pdfFileName) ==
    IF kind = "issue" THEN IssueItem(componentId, component, key, pdfFileName)
    ELSE StorageItem(componentId, component, key)

\* a loop that mints every identifier of the batch against the base records
RECURSIVE BuildItemsAgainstBase(_, _, _, _, _, _, _)
BuildItemsAgainstBase(base, kind, key, components, i, newItems, mvDone) ==
    IF i > Len(components)
    THEN [suspended |-> FALSE, i |-> i, newItems |-> newItems]
    ELSE IF kind = "issue" /\ components[i].hasPdf /\ ~mvDone
    THEN [suspended |-> TRUE, i |-> i, newItems |-> newItems]
    ELSE LET pdfFileName == IF kind = "issue" /\ components[i].hasPdf
                            THEN PdfPath ELSE ""
             newItem == NewItem(kind, GenerateComponentId(base),
                                components[i], key, pdfFileName)
         IN  BuildItemsAgainstBase(base, kind, key, components, i + 1,
                                   Append(newItems, newItem), FALSE)

\* The for loop over the line items, run from item i until it reaches an
\* await pdfFile.mv() or the end of the batch.  mvDone: the loop is resumed
\* after the upload of item i was stored.
RECURSIVE BuildItems(_, _, _, _, _, _, _)
BuildItems(base, kind, key, components, i, newItems, mvDone) ==
    IF i > Len(components)
    THEN [suspended |-> FALSE, i |-> i, newItems |-> newItems]
    ELSE IF kind = "issue" /\ components[i].hasPdf /\ ~mvDone
    THEN [suspended |-> TRUE, i |-> i, newItems |-> newItems]
    ELSE LET pdfFileName == IF kind = "issue" /\ components[i].hasPdf
                            THEN PdfPath ELSE ""
             newItem == NewItem(kind, GenerateComponentId(base \o newItems),
                                components[i], key, pdfFileName)
         IN  BuildItems(base, kind, key, components, i + 1,
                        Append(newItems, newItem), FALSE)

ComponentIds(data) == {data[i].ComponentID : i \in 1..Len(data)}

\* the numeric suffix generateComponentId reads from a record
Suffix(item) ==
    IF Truthy(item.ComponentID) /\ CmpMatch(item.ComponentID) # NULL
    THEN ParseInt(CmpMatch(item.ComponentID)) ELSE 0

MaxSuffix(data) == Max0([k \in 1..Len(data) |-> Suffix(data[k])])

----------------------------------------------------------------------------
(* Credential store *)

RegSlots == 1..NRegs

\* usernames and passwords are sequences of characters
UserBob == <<"B", "o", "b">>
UserBobLower == <<"b", "o", "b">>
UserShort == <<"a", "l">>
Usernames == {UserBob, UserBobLower, UserShort}

Pass12 == <<"p", "w", "1", "2">>
Pass34 == <<"p", "w", "3", "4">>
PassShort == <<"p", "w">>
Passwords == {Pass12, Pass34, PassShort}

AuthOutcomes == {"ok", "fail"}

UpperChars == <<"A", "B", "C", "O">>
LowerChars == <<"a", "b", "c", "o">>

\* one character of s.toLowerCase()
LowerChar(c) ==
    IF \E k \in 1..Len(UpperChars) : UpperChars[k] = c
    THEN LowerChars[CHOOSE k \in 1..Len(UpperChars) : UpperChars[k] = c]
    ELSE c

\* username.toLowerCase()
UsernameToLowerCase(username) == [k \in 1..Len(username) |-> LowerChar(username[k])]

\* a load that reads the file of the user scope for both scopes
LoadUsersShared(isAdmin) == users[FALSE]

\* loadUsers(isAdmin): JSON.parse of the file of the scope; the files hold
\* what JSON.stringify wrote, arrays of objects with string fields
LoadUsers(isAdmin) == users[isAdmin]

\* usernameExists, on the users it loaded
UsernameExists(loadedUsers, username) ==
    \E k \in 1..Len(loadedUsers) :
        UsernameToLowerCase(loadedUsers[k].username) = UsernameToLowerCase(username)

\* findUser, on the users it loaded: the first user with the username,
\* ignoring case, and the password, as a sequence of one user, or no user
FindUser(loadedUsers, username, password) ==
    LET found == {k \in 1..Len(loadedUsers) :
                     /\ UsernameToLowerCase(loadedUsers[k].username)
                            = UsernameToLowerCase(username)
                     /\ loadedUsers[k].password = password}
    IN  IF found = {} THEN <<>>
        ELSE <<loadedUsers[CHOOSE k \in found : \A l \in found : k <= l]>>

\* const newUser = { id, username, password, createdAt, role }; id and
\* createdAt are made of the clock and are read nowhere
NewUser(username, password, isAdmin) ==
    [username |-> username, password |-> password,
     role |-> IF isAdmin THEN "admin" ELSE "user"]

IdleReg ==
    [pc |-> "idle", isAdmin |-> FALSE, username |-> <<>>, password |-> <<>>,
     users |-> <<>>]

NoAuth ==
    [op |-> "none", code |-> 0, isAdmin |-> FALSE, username |-> <<>>,
     password |-> <<>>, role |-> ""]

AuthResponse(op, code, isAdmin, username, password, role) ==
    [op |-> op, code |-> code, isAdmin |-> isAdmin, username |-> username,
     password |-> password, role |-> role]

\* initializeUsersFiles has written [] to both files before the server
\* listens
AuthInit ==
    /\ users = [isAdmin \in BOOLEAN |-> <<>>]
    /\ reg = [p \in RegSlots |-> IdleReg]
    /\ auth = NoAuth
    /\ attempts = {}
    /\ succeeded = <<>>

----------------------------------------------------------------------------
(* State *)

IdleProc ==
    [pc |-> "idle", op |-> "none", kind |-> "none", key |-> NULL,
     components |-> <<>>, i |-> 0, base |-> <<>>, newItems |-> <<>>]

NoStale == [minted |-> {}, revived |-> {}]

NoResp ==
    [op |-> "none", code |-> 0, count |-> 0, created |-> {}, removed |-> 0,
     groups |-> <<>>]

\* res.json(...): created are the Component IDs of the new records in the
\* data the response carries; removed, the number of loaded records that
\* the handler did not keep; groups, the records in the body of the answer
\* to a read: the pending list, or the record a lookup found
Response(op, code, count, created) ==
    [op |-> op, code |-> code, count |-> count, created |-> created,
     removed |-> 0, groups |-> <<>>]

Init ==
    /\ file = [exists |-> FALSE, parses |-> TRUE, rows |-> <<>>]
    /\ proc = [p \in Procs |-> IdleProc]
    /\ resp = NoResp
    /\ everIds = {}
    /\ stale = NoStale
    /\ updateId = NULL
    /\ AuthInit

\* a request fits the bounds of the model: cap records, suffixes up to MaxId
Fits(base, components, cap) ==
    /\ Len(base) + Len(components) <= cap
    /\ MaxSuffix(base) + Len(components) <= MaxId

\* the slot a handler takes when it is suspended: the first free one
FirstFree(p) ==
    /\ proc[p].pc = "idle"
    /\ \A q \in Procs : q < p => proc[q].pc # "idle"

----------------------------------------------------------------------------
(* Submit and update: the part shared by the handlers *)

\* a save that puts the new items in front of the records
SaveBatchInFront(op, base, newItems, loaded, wr) ==
    LET updatedData == newItems \o base
        success == SaveToExcelSync(updatedData, wr)
    IN  /\ file' = FileAfterSave(loaded, updatedData, wr)
        /\ everIds' = everIds \cup ComponentIds(file'.rows)
        /\ stale' = NoStale
        /\ resp' = IF success
                   THEN Response(op, 200, Len(newItems), ComponentIds(newItems))
                   ELSE Response(op, 500, 0, {})

\* const updatedData = [...base, ...newItems]; saveToExcelSync(updatedData);
\* res.json(...)
SaveBatch(op, base, newItems, loaded, wr) ==
    LET updatedData == base \o newItems
        success == SaveToExcelSync(updatedData, wr)
    IN  /\ file' = FileAfterSave(loaded, updatedData, wr)
        /\ everIds' = everIds \cup ComponentIds(file'.rows)
        /\ stale' = IF success
                    THEN [minted |-> ComponentIds(newItems) \cap ComponentIds(LoadExcelSync(loaded)),
                          revived |-> ComponentIds(base) \ ComponentIds(LoadExcelSync(loaded))]
                    ELSE NoStale
        /\ resp' = IF success
                   THEN [Response(op, 200, Len(newItems), ComponentIds(newItems))
                            EXCEPT !.removed = Len(LoadExcelSync(loaded)) - Len(base)]
                   ELSE Response(op, 500, 0, {})

\* an early return that leaves an empty sheet behind
FailTruncating(op, code, loaded) ==
    /\ file' = [exists |-> TRUE, parses |-> TRUE, rows |-> <<>>]
    /\ resp' = Response(op, code, 0, {})
    /\ UNCHANGED everIds
    /\ stale' = NoStale

\* an early return or a caught exception: a response and no save
Fail(op, code, loaded) ==
    /\ file' = loaded
    /\ resp' = Response(op, code, 0, {})
    /\ UNCHANGED everIds
    /\ stale' = NoStale

\* the handler runs its loop from item i and either reaches
\* await pdfFile.mv(pdfPath), where it is suspended in slot p, or saves
RunLoop(p, op, kind, key, components, base, i, newItems, mvDone, loaded, wr) ==
    LET r == BuildItems(base, kind, key, components, i, newItems, mvDone)
    IN  IF r.suspended
        THEN /\ wr = "ok"
             /\ file' = loaded
             /\ proc' = [proc EXCEPT ![p] =
                            [pc |-> "mv", op |-> op, kind |-> kind, key |-> key, components |-> components, i |-> r.i,
                             base |-> base, newItems |-> r.newItems]]
             /\ resp' = NoResp
             /\ UNCHANGED everIds
             /\ stale' = NoStale
        ELSE /\ SaveBatch(op, base, r.newItems, loaded, wr)
             /\ proc' = [proc EXCEPT ![p] = IdleProc]

\* a continuation that loads the collection again after the upload
AfterMvReload(p, op, mvOk, wr) ==
    /\ proc[p].pc = "mv"
    /\ proc[p].op = op
    /\ LET q == proc[p]
       IN  IF ~mvOk
           THEN /\ wr = "ok"
                /\ Fail(op, 500, file)
                /\ proc' = [proc EXCEPT ![p] = IdleProc]
           ELSE RunLoop(p, op, q.kind, q.key, q.components, LoadExcelSync(file), q.i,
                        q.newItems, TRUE, file, wr)

\* a continuation that saves the items built so far when mv rejects
AfterMvSavingPartial(p, op, mvOk, wr) ==
    /\ proc[p].pc = "mv"
    /\ proc[p].op = op
    /\ LET q == proc[p]
       IN  IF ~mvOk
           THEN /\ SaveBatch(op, q.base, q.newItems, file, wr)
                /\ proc' = [proc EXCEPT ![p] = IdleProc]
           ELSE RunLoop(p, op, q.kind, q.key, q.components, q.base, q.i,
                        q.newItems, TRUE, file, wr)

\* the continuation of a handler after await pdfFile.mv(): mv rejected (the
\* catch block answers 500) or the loop goes on with item i
AfterMv(p, op, mvOk, wr) ==
    /\ proc[p].pc = "mv"
    /\ proc[p].op = op
    /\ LET q == proc[p]
       IN  IF ~mvOk
           THEN /\ wr = "ok"
                /\ Fail(op, 500, file)
                /\ proc' = [proc EXCEPT ![p] = IdleProc]
           ELSE RunLoop(p, op, q.kind, q.key, q.components, q.base, q.i,
                        q.newItems, TRUE, file, wr)

----------------------------------------------------------------------------
(* Request handlers *)

\* a submit without the check for an empty batch
PostIssueNoCheck(p, issueNo, components, wr) ==
    /\ FirstFree(p)
    /\ RunLoop(p, "issue", "issue", issueNo, components,
               LoadExcelSync(file), 1, <<>>, FALSE, FileAfterLoad(file), wr)

\* POST /api/issue, up to its first await pdfFile.mv() or to its response
PostIssue(p, issueNo, components, wr) ==
    /\ FirstFree(p)
    /\ LET currentData == LoadExcelSync(file)
           loaded == FileAfterLoad(file)
       IN  IF Len(components) = 0
              THEN /\ wr = "ok"
                   /\ Fail("issue", 400, loaded)
                   /\ UNCHANGED proc
              ELSE RunLoop(p, "issue", "issue", issueNo, components,
                           currentData, 1, <<>>, FALSE, loaded, wr)

PostIssueAfterMv(p, mvOk, wr) == AfterMv(p, "issue", mvOk, wr)

\* POST /api/storage
\* a submit-storage that works on records loaded before other requests
\* ran: those of a handler that is waiting for its upload
PostStorageOnSnapshot(storageNo, components, wr) ==
    LET currentData == IF \E p \in Procs : proc[p].pc = "mv"
                       THEN proc[CHOOSE p \in Procs : proc[p].pc = "mv"].base
                       ELSE LoadExcelSync(file)
        loaded == FileAfterLoad(file)
    IN  /\ UNCHANGED proc
        /\ IF Len(components) = 0
           THEN wr = "ok" /\ Fail("storage", 400, loaded)
           ELSE LET r == BuildItems(currentData, "storage", storageNo, components,
                                    1, <<>>, FALSE)
                IN  SaveBatch("storage", currentData, r.newItems, loaded, wr)

PostStorage(storageNo, components, wr) ==
    LET currentData == LoadExcelSync(file)
        loaded == FileAfterLoad(file)
    IN  /\ UNCHANGED proc
        /\ IF Len(components) = 0
           THEN wr = "ok" /\ Fail("storage", 400, loaded)
           ELSE LET r == BuildItems(currentData, "storage", storageNo, components,
                                    1, <<>>, FALSE)
                IN  SaveBatch("storage", currentData, r.newItems, loaded, wr)

\* an approval that stamps the record and leaves its Status as it is
ApproveItemKeepingStatus(item, approvedBy, signature) ==
    [item EXCEPT !.ApprovedBy = approvedBy,
                 !.ApprovalDate = Today,
                 !.ApprovalSignature = signature]

ApproveItem(item, approvedBy, signature) ==
    [item EXCEPT !.Status = "Approved",
                 !.ApprovedBy = approvedBy,
                 !.ApprovalDate = Today,
                 !.ApprovalSignature = signature]

\* a rejection that sends the record back to the queue
RejectItemToPending(item, rejectionReason) ==
    [item EXCEPT !.Status = "Pending",
                 !.RejectionReason = rejectionReason,
                 !.RejectionDate = Today]

\* a rejection that forgets the reason
RejectItemNoReason(item, rejectionReason) ==
    [item EXCEPT !.Status = "Rejected",
                 !.RejectionDate = Today]

RejectItem(item, rejectionReason) ==
    [item EXCEPT !.Status = "Rejected",
                 !.RejectionReason = rejectionReason,
                 !.RejectionDate = Today]

\* saveToExcelSync(currentData) and the answer of approve and reject
SaveStamped(op, loaded, updated, updatedCount, wr) ==
    LET success == SaveToExcelSync(updated, wr)
    IN  /\ file' = FileAfterSave(loaded, updated, wr)
        /\ everIds' = everIds \cup ComponentIds(file'.rows)
        /\ stale' = NoStale
        /\ resp' = IF success
                   THEN Response(op, 200, updatedCount, {})
                   ELSE Response(op, 500, 0, {})

\* an approval that saves the matching records only
PostApproveMatchedOnly(requestId, approvedBy, signature, wr) ==
    LET currentData == LoadExcelSync(file)
        loaded == FileAfterLoad(file)
        matching == SelectSeq(currentData, LAMBDA item : Matches(item, requestId))
    IN  /\ UNCHANGED proc
        /\ IF matching = <<>>
           THEN wr = "ok" /\ Fail("approve", 404, loaded)
           ELSE LET updated == [i \in 1..Len(matching) |->
                                   ApproveItem(matching[i], approvedBy, signature)]
                IN  SaveStamped("approve", loaded, updated, Len(updated), wr)

\* POST /api/requests/approve
PostApprove(requestId, approvedBy, signature, wr) ==
    LET currentData == LoadExcelSync(file)
        loaded == FileAfterLoad(file)
        matchingIndices == MatchingIndices(currentData, requestId)
    IN  /\ UNCHANGED proc
        /\ IF matchingIndices = {}
           THEN wr = "ok" /\ Fail("approve", 404, loaded)
           ELSE LET updated == [i \in 1..Len(currentData) |->
                                   IF i \in matchingIndices
                                   THEN ApproveItem(currentData[i], approvedBy, signature)
                                   ELSE currentData[i]]
                IN  SaveStamped("approve", loaded, updated,
                                Cardinality(matchingIndices), wr)

\* POST /api/requests/reject
PostReject(requestId, rejectionReason, wr) ==
    LET currentData == LoadExcelSync(file)
        loaded == FileAfterLoad(file)
        matchingIndices == MatchingIndices(currentData, requestId)
    IN  /\ UNCHANGED proc
        /\ IF matchingIndices = {}
           THEN wr = "ok" /\ Fail("reject", 404, loaded)
           ELSE LET updated == [i \in 1..Len(currentData) |->
                                   IF i \in matchingIndices
                                   THEN RejectItem(currentData[i], rejectionReason)
                                   ELSE currentData[i]]
                IN  SaveStamped("reject", loaded, updated,
                                Cardinality(matchingIndices), wr)

\* DELETE /api/components/:identifier
DeleteComponent(identifier, wr) ==
    LET currentData == LoadExcelSync(file)
        loaded == FileAfterLoad(file)
        remainingData == RemainingData(currentData, identifier)
        deletedCount == Len(currentData) - Len(remainingData)
    IN  /\ UNCHANGED proc
        /\ IF deletedCount = 0
           THEN wr = "ok" /\ Fail("delete", 404, loaded)
           ELSE LET success == SaveToExcelSync(remainingData, wr)
                IN  /\ file' = FileAfterSave(loaded, remainingData, wr)
                    /\ everIds' = everIds \cup ComponentIds(file'.rows)
                    /\ stale' = NoStale
                    /\ resp' = IF success
                               THEN [Response("delete", 200, deletedCount, {})
                                        EXCEPT !.removed = deletedCount]
                               ELSE Response("delete", 500, 0, {})

\* an update that numbers the batch after the collection as loaded, before
\* the old records are dropped
PutComponentFromFull(p, identifier, kind, key, components, wr) ==
    /\ FirstFree(p)
    /\ kind # "invalid"
    /\ LET currentData == LoadExcelSync(file)
           loaded == FileAfterLoad(file)
           remainingData == RemainingData(currentData, identifier)
           r == BuildItems(currentData, kind, key, components, 1, <<>>, FALSE)
       IN  /\ ~r.suspended
           /\ SaveBatch("update", remainingData, r.newItems, loaded, wr)
           /\ UNCHANGED proc

\* an update that answers 404 when its identifier matches no record
PutComponentNotFound(p, identifier, kind, key, components, wr) ==
    /\ FirstFree(p)
    /\ LET currentData == LoadExcelSync(file)
           loaded == FileAfterLoad(file)
           remainingData == RemainingData(currentData, identifier)
       IN  IF kind = "invalid"
              THEN /\ wr = "ok"
                   /\ components = <<>>
                   /\ key = NULL
                   /\ Fail("update", 400, loaded)
                   /\ UNCHANGED proc
              ELSE IF Len(remainingData) = Len(currentData)
              THEN /\ wr = "ok"
                   /\ Fail("update", 404, loaded)
                   /\ UNCHANGED proc
              ELSE RunLoop(p, "update", kind, key, components,
                           remainingData, 1, <<>>, FALSE, loaded, wr)

\* PUT /api/components/:identifier, up to its first await pdfFile.mv() or to
\* its response.  kind: "issue" (components is a JSON string), "storage"
\* (components is an array) or "invalid" (neither)
PutComponent(p, identifier, kind, key, components, wr) ==
    /\ FirstFree(p)
    /\ LET currentData == LoadExcelSync(file)
           loaded == FileAfterLoad(file)
           remainingData == RemainingData(currentData, identifier)
       IN  IF kind = "invalid"
              THEN /\ wr = "ok"
                   /\ components = <<>>
                   /\ key = NULL
                   /\ Fail("update", 400, loaded)
                   /\ UNCHANGED proc
              ELSE RunLoop(p, "update", kind, key, components,
                           remainingData, 1, <<>>, FALSE, loaded, wr)

PutComponentAfterMv(p, mvOk, wr) == AfterMv(p, "update", mvOk, wr)

\* a lookup that returns the last matching record
FindLast(data, identifier) ==
    IF MatchingIndices(data, identifier) = {} THEN <<>>
    ELSE <<data[CHOOSE i \in MatchingIndices(data, identifier) :
                    \A j \in MatchingIndices(data, identifier) : j <= i]>>

\* currentData.find(item => ...): the first matching record, as a sequence
\* of one record, or no record when find returns undefined
Find(data, identifier) ==
    IF MatchingIndices(data, identifier) = {} THEN <<>>
    ELSE <<data[CHOOSE i \in MatchingIndices(data, identifier) :
                    \A j \in MatchingIndices(data, identifier) : i <= j]>>

\* GET /api/components/:identifier
GetComponent(identifier) ==
    LET currentData == LoadExcelSync(file)
        component == Find(currentData, identifier)
    IN  /\ file' = FileAfterLoad(file)
        /\ resp' = IF component = <<>>
                   THEN Response("get", 404, 0, {})
                   ELSE [Response("get", 200, 1, {}) EXCEPT !.groups = component]
        /\ stale' = NoStale
        /\ UNCHANGED <<proc, everIds>>

\* item.Status.toString().toLowerCase()
ToLowerCase(status) ==
    CASE status = "Pending" -> "pending"
      [] status = "Approved" -> "approved"
      [] status = "Rejected" -> "rejected"
      [] OTHER -> status

\* a group key that tells an issue number from a storage number
GroupKeyByKind(item) ==
    IF Truthy(item.IssueNo) THEN <<"I">> \o item.IssueNo
    ELSE IF Truthy(item.StorageNo) THEN <<"S">> \o item.StorageNo
    ELSE NULL

\* item['Issue No'] || item['Storage No']
GroupKey(item) == IF Truthy(item.IssueNo) THEN item.IssueNo ELSE item.StorageNo

\* groupedRequests[groupKey] is truthy: groupedRequests is an object literal,
\* so the lookup finds the entry stored under the key or, failing that, the
\* property of that name inherited from Object.prototype
HasEntry(groupedRequests, groupKey) ==
    \/ \E j \in 1..Len(groupedRequests) : GroupKey(groupedRequests[j]) = groupKey
    \/ groupKey \in ObjectPrototypeNames

\* data.forEach(...) of the pending list from record i on; groupedRequests
\* holds the entries in the order they were stored (the order in which
\* Object.values lists keys that are not array indices)
RECURSIVE GroupFrom(_, _, _)
GroupFrom(data, i, groupedRequests) ==
    IF i > Len(data) THEN groupedRequests
    ELSE LET item == data[i]
             groupKey == GroupKey(item)
         IN  IF /\ item.Status # ""
                /\ ToLowerCase(item.Status) = "pending"
                /\ Truthy(groupKey)
                /\ ~HasEntry(groupedRequests, groupKey)
             THEN GroupFrom(data, i + 1, Append(groupedRequests, item))
             ELSE GroupFrom(data, i + 1, groupedRequests)

\* a list that shows for each key the last of its Pending records
PendingRequestsLatest(data) ==
    LET listed(i) == /\ data[i].Status = "Pending"
                     /\ Truthy(GroupKey(data[i]))
                     /\ GroupKey(data[i]) \notin ObjectPrototypeNames
        latest == {i \in 1..Len(data) :
                      /\ listed(i)
                      /\ \A h \in (i + 1)..Len(data) :
                             ~(listed(h) /\ GroupKey(data[h]) = GroupKey(data[i]))}
    IN  SelectSeq(data, LAMBDA item : \E i \in latest : data[i] = item)

\* Object.values(groupedRequests)
PendingRequests(data) == GroupFrom(data, 1, <<>>)

\* GET /api/requests/pending
GetPendingRequests ==
    LET data == LoadExcelSync(file)
        pendingRequests == PendingRequests(data)
    IN  /\ file' = FileAfterLoad(file)
        /\ resp' = [Response("pending", 200, Len(pendingRequests), {})
                        EXCEPT !.groups = pendingRequests]
        /\ stale' = NoStale
        /\ UNCHANGED <<proc, everIds>>

----------------------------------------------------------------------------
(* Signup and login *)

\* POST /api/signup and POST /api/admin/signup, up to the moment the first
\* await loadUsers(isAdmin) of registerUser has read the file
Signup(p, isAdmin, username, password) ==
    /\ reg[p].pc = "idle"
    /\ \A q \in RegSlots : q < p => reg[q].pc # "idle"
    /\ IF \/ ~Truthy(username) \/ ~Truthy(password)
          \/ Len(username) < 3 \/ Len(password) < 4
       THEN /\ auth' = AuthResponse("signup", 400, isAdmin, username, password, "")
            /\ UNCHANGED <<users, reg, attempts, succeeded>>
       ELSE /\ reg' = [reg EXCEPT ![p] =
                          [pc |-> "exists", isAdmin |-> isAdmin, username |-> username,
                           password |-> password, users |-> LoadUsers(isAdmin)]]
            /\ attempts' = attempts
                               \cup {<<isAdmin, UsernameToLowerCase(username), password>>}
            /\ auth' = NoAuth
            /\ UNCHANGED <<users, succeeded>>

\* registerUser from the moment await usernameExists(username, isAdmin) has
\* read the file a second time: the answer 'Username already exists', or
\* users.push(newUser) on the users of the first load and the call of
\* saveUsers
SignupExists(p) ==
    /\ reg[p].pc = "exists"
    /\ LET q == reg[p]
       IN  IF UsernameExists(LoadUsers(q.isAdmin), q.username)
           THEN /\ auth' = AuthResponse("signup", 400, q.isAdmin, q.username, q.password, "")
                /\ reg' = [reg EXCEPT ![p] = IdleReg]
                /\ UNCHANGED <<users, attempts, succeeded>>
           ELSE /\ reg' = [reg EXCEPT ![p] =
                              [q EXCEPT !.pc = "save",
                                        !.users = Append(q.users,
                                                         NewUser(q.username, q.password,
                                                                 q.isAdmin))]]
                /\ auth' = NoAuth
                /\ UNCHANGED <<users, attempts, succeeded>>

\* registerUser from the moment await writeFile(...) of saveUsers is over:
\* wr "ok", the file holds the users of the handler; "fail", writeFile
\* rejected and the file is as before
SignupSaved(p, wr) ==
    /\ reg[p].pc = "save"
    /\ LET q == reg[p]
       IN  /\ reg' = [reg EXCEPT ![p] = IdleReg]
           /\ UNCHANGED attempts
           /\ IF wr = "ok"
              THEN /\ users' = [users EXCEPT ![q.isAdmin] = q.users]
                   /\ auth' = AuthResponse("signup", 200, q.isAdmin, q.username, q.password,
                                           IF q.isAdmin THEN "admin" ELSE "user")
                   /\ succeeded' = Append(succeeded,
                                          [isAdmin |-> q.isAdmin, username |-> q.username,
                                           password |-> q.password])
              ELSE /\ auth' = AuthResponse("signup", 400, q.isAdmin, q.username, q.password, "")
                   /\ UNCHANGED <<users, succeeded>>

\* POST /api/login and POST /api/admin/login
Login(isAdmin, username, password) ==
    /\ UNCHANGED <<users, reg, attempts, succeeded>>
    /\ IF ~Truthy(username) \/ ~Truthy(password)
       THEN auth' = AuthResponse("login", 400, isAdmin, username, password, "")
       ELSE LET user == FindUser(LoadUsers(isAdmin), username, password)
            IN  auth' = IF user # <<>>
                        THEN AuthResponse("login", 200, isAdmin, username, password,
                                          IF isAdmin THEN "admin" ELSE "user")
                        ELSE AuthResponse("login", 401, isAdmin, username, password, "")

----------------------------------------------------------------------------
(* Specifications *)

Batches(n) == SeqsUpTo(Components, n)
PlainBatches(n) == SeqsUpTo(NoPdfComponents, n)

\* The requests a specification lets arrive: in.issueNos and in.storageNos the
\* transaction keys, in.batches the line-item lists of issue forms, in.cap the
\* number of records a request may bring the collection to, in.outcomes what
\* xlsx.writeFile can do.
Issue(in) ==
    \E p \in Procs, issueNo \in in.issueNos, components \in in.batches,
       wr \in in.outcomes :
        /\ Fits(LoadExcelSync(file), components, in.cap)
        /\ PostIssue(p, issueNo, components, wr)
        /\ updateId' = NULL
        /\ UNCHANGED authVars

IssueResume(in) ==
    \E p \in Procs, mvOk \in BOOLEAN, wr \in in.outcomes :
        /\ PostIssueAfterMv(p, mvOk, wr)
        /\ updateId' = NULL
        /\ UNCHANGED authVars

Storage(in) ==
    \E storageNo \in in.storageNos, components \in PlainBatches(MaxBatch),
       wr \in in.outcomes :
        /\ Fits(LoadExcelSync(file), components, in.cap)
        /\ PostStorage(storageNo, components, wr)
        /\ updateId' = NULL
        /\ UNCHANGED authVars

Approve(in) ==
    \E requestId \in Identifiers, approvedBy \in Approvers, signature \in Signatures,
       wr \in in.outcomes :
        /\ PostApprove(requestId, approvedBy, signature, wr)
        /\ updateId' = NULL
        /\ UNCHANGED authVars

Reject(in) ==
    \E requestId \in Identifiers, rejectionReason \in Reasons, wr \in in.outcomes :
        /\ PostReject(requestId, rejectionReason, wr)
        /\ updateId' = NULL
        /\ UNCHANGED authVars

Delete(in) ==
    \E identifier \in Identifiers, wr \in in.outcomes :
        /\ DeleteComponent(identifier, wr)
        /\ updateId' = NULL
        /\ UNCHANGED authVars

Update(in) ==
    \E p \in Procs, identifier \in Identifiers, kind \in {"issue", "storage", "invalid"},
       key \in in.issueNos \cup in.storageNos \cup {NULL}, components \in in.batches,
       wr \in in.outcomes :
        /\ kind = "issue" => key \in in.issueNos
        /\ kind = "storage" => key \in in.storageNos /\ components \in PlainBatches(MaxBatch)
        /\ Fits(RemainingData(LoadExcelSync(file), identifier), components, in.cap)
        /\ PutComponent(p, identifier, kind, key, components, wr)
        /\ updateId' = identifier
        /\ UNCHANGED authVars

UpdateResume(in) ==
    \E p \in Procs, mvOk \in BOOLEAN, wr \in in.outcomes :
        /\ PutComponentAfterMv(p, mvOk, wr)
        /\ updateId' = NULL
        /\ UNCHANGED authVars

\* operations one at a time: no line item carries an upload, so no handler
\* is ever suspended; the store never fails a write
SeqIn ==
    [issueNos |-> {KeyA, KeyCmp}, storageNos |-> {KeyA},
     batches |-> PlainBatches(MaxBatch), cap |-> MaxRecords, outcomes |-> {"ok"}]

SeqNext ==
    \/ Issue(SeqIn)
    \/ Storage(SeqIn)
    \/ Approve(SeqIn)
    \/ Reject(SeqIn)
    \/ Delete(SeqIn)
    \/ Update(SeqIn)

SeqSpec == Init /\ [][SeqNext]_vars

\* the server: requests are served as they arrive, a handler suspended at an
\* await lets other requests run
ConcIn ==
    [issueNos |-> {KeyA}, storageNos |-> {KeyA},
     batches |-> Batches(MaxConcBatch), cap |-> MaxConcRecords, outcomes |-> {"ok"}]

Next ==
    \/ Issue(ConcIn)
    \/ IssueResume(ConcIn)
    \/ Storage(ConcIn)
    \/ Approve(ConcIn)
    \/ Reject(ConcIn)
    \/ Delete(ConcIn)
    \/ Update(ConcIn)
    \/ UpdateResume(ConcIn)

Spec == Init /\ [][Next]_vars

Pending(in) ==
    /\ GetPendingRequests
    /\ updateId' = NULL
    /\ UNCHANGED authVars

Get(in) ==
    \E identifier \in Identifiers :
        /\ GetComponent(identifier)
        /\ updateId' = NULL
        /\ UNCHANGED authVars

\* the forms as the handlers accept them: a transaction key may be missing
\* from the request or be any text; the pending list is read
FormIn ==
    [issueNos |-> {KeyA, KeyValueOf, NULL}, storageNos |-> {KeyA, NULL},
     batches |-> PlainBatches(MaxFormBatch), cap |-> MaxFormRecords,
     outcomes |-> {"ok"}]

FormNext ==
    \/ Issue(FormIn)
    \/ Storage(FormIn)
    \/ Approve(FormIn)
    \/ Reject(FormIn)
    \/ Delete(FormIn)
    \/ Update(FormIn)
    \/ Pending(FormIn)
    \/ Get(FormIn)

FormSpec == Init /\ [][FormNext]_vars

\* the store can fail: xlsx.writeFile throws, or returns having written
\* less than it was given
FaultIn ==
    [issueNos |-> {KeyA}, storageNos |-> {KeyA},
     batches |-> PlainBatches(MaxFaultBatch), cap |-> MaxFaultRecords,
     outcomes |-> WriteOutcomes]

FaultNext ==
    \/ Issue(FaultIn)
    \/ Storage(FaultIn)
    \/ Approve(FaultIn)
    \/ Reject(FaultIn)
    \/ Delete(FaultIn)
    \/ Update(FaultIn)

FaultSpec == Init /\ [][FaultNext]_vars

----------------------------------------------------------------------------
(* The identifier generator on collections of any content *)

Cmp7 == <<"C", "M", "P", "-", "7">>
Cmp099 == <<"C", "M", "P", "-", "0", "9", "9">>
Cmp999 == <<"C", "M", "P", "-", "9", "9", "9">>
Cmp1000 == <<"C", "M", "P", "-", "1", "0", "0", "0">>
XCmp12Y == <<"X", "C", "M", "P", "-", "1", "2", "Y">>
LowerCmp5 == <<"c", "m", "p", "-", "5">>

\* Component IDs a record of the file can carry: none, one without the
\* pattern, identifiers the generator made, and identifiers with the
\* pattern in other shapes
IdSamples == {NULL, KeyA, LowerCmp5, KeyCmp, Cmp7, XCmp12Y, Cmp099, Cmp999}

GenRecords ==
    {StorageItem(id, component, KeyA) : id \in IdSamples, component \in NoPdfComponents}

GenInit ==
    /\ file \in {[exists |-> TRUE, parses |-> TRUE, rows |-> rows] :
                    rows \in SeqsUpTo(GenRecords, MaxGenRecords)}
    /\ proc = [p \in Procs |-> IdleProc]
    /\ resp = NoResp
    /\ everIds = ComponentIds(file.rows)
    /\ stale = NoStale
    /\ updateId = NULL
    /\ AuthInit

\* a submit of one line item: generateComponentId(currentData) is called
\* on the records of the file
GenSubmit ==
    \E component \in NoPdfComponents :
        /\ Len(file.rows) <= MaxGenRecords
        /\ PostStorage(KeyA, <<component>>, "ok")
        /\ updateId' = NULL
        /\ UNCHANGED authVars

GenNext == GenSubmit

GenSpec == GenInit /\ [][GenNext]_vars

----------------------------------------------------------------------------
(* A file that cannot be read *)

\* inventory.xlsx is damaged from outside the program: a partial write by
\* another tool, a disk error.  Its content is no workbook any more.
Damage ==
    /\ file.exists /\ file.parses
    /\ file' = [file EXCEPT !.parses = FALSE]
    /\ resp' = NoResp
    /\ stale' = NoStale
    /\ updateId' = NULL
    /\ UNCHANGED authVars
    /\ UNCHANGED <<proc, everIds>>

DamageIn ==
    [issueNos |-> {KeyA}, storageNos |-> {KeyA},
     batches |-> PlainBatches(MaxDamageBatch), cap |-> MaxDamageRecords,
     outcomes |-> {"ok"}]

DamageNext ==
    \/ Issue(DamageIn)
    \/ Storage(DamageIn)
    \/ Approve(DamageIn)
    \/ Reject(DamageIn)
    \/ Delete(DamageIn)
    \/ Update(DamageIn)
    \/ Damage

DamageSpec == Init /\ [][DamageNext]_vars

----------------------------------------------------------------------------
(* The credential store alone *)

AuthSignup ==
    \E p \in RegSlots, isAdmin \in BOOLEAN, username \in Usernames, password \in Passwords :
        /\ Len(LoadUsers(isAdmin)) < MaxUsers
        /\ Len(succeeded) < MaxSuccesses
        /\ Signup(p, isAdmin, username, password)
        /\ UNCHANGED ledgerVars

AuthSignupExists ==
    \E p \in RegSlots : SignupExists(p) /\ UNCHANGED ledgerVars

AuthSignupSaved ==
    \E p \in RegSlots, wr \in AuthOutcomes : SignupSaved(p, wr) /\ UNCHANGED ledgerVars

AuthLogin ==
    \E isAdmin \in BOOLEAN, username \in {UserBob, UserBobLower, NULL},
       password \in {Pass12, Pass34} :
        Login(isAdmin, username, password) /\ UNCHANGED ledgerVars

AuthNext ==
    \/ AuthSignup
    \/ AuthSignupExists
    \/ AuthSignupSaved
    \/ AuthLogin

AuthSpec == Init /\ [][AuthNext]_vars

----------------------------------------------------------------------------
(* Properties *)

Rows == file.rows

RowSet(f) == {f.rows[i] : i \in 1..Len(f.rows)}

Terminal(status) == status \in {"Approved", "Rejected"}

\* the transaction key of a record
TxKey(item) == IF Truthy(item.IssueNo) THEN item.IssueNo ELSE item.StorageNo

\* C1: when operations run one at a time, no two records of the persisted
\* collection have the same Component ID.
C1_UniqueComponentIds ==
    \A i, j \in 1..Len(Rows) : i # j => Rows[i].ComponentID # Rows[j].ComponentID

\* records persisted by two submits, an issue form and then a storage form
C1_Witness ==
    /\ Len(Rows) = 2
    /\ resp.op = "storage" /\ resp.code = 200 /\ resp.count = 1
    /\ Truthy(Rows[1].IssueNo)
    /\ Rows[2].ComponentID \in resp.created
    /\ Rows[2].ComponentID # Rows[1].ComponentID

\* C2: a Component ID is never reused: no step gives a new record an
\* identifier that was persisted before the step.
C2_NeverReused == [][resp'.created \cap everIds = {}]_vars

\* C3: a submit that was suspended at an upload persists the snapshot it
\* loaded before the upload followed by its batch, and mints the batch's
\* identifiers from that snapshot; the identifiers that other requests
\* persisted in the meantime are therefore minted a second time.
C3_MintedFromSnapshot ==
    [][\A p \in Procs :
          (proc[p].pc = "mv" /\ proc'[p].pc = "idle" /\ resp'.code = 200) =>
              LET base == proc[p].base
                  k == Len(proc[p].components)
                  n == Len(file'.rows)
              IN  /\ n = Len(base) + k
                  /\ SubSeq(file'.rows, 1, Len(base)) = base
                  /\ \A m \in 1..k :
                        Suffix(file'.rows[Len(base) + m]) = MaxSuffix(base) + m]_vars

\* a submit-issue answered 200 after minting identifiers that records
\* persisted by another request since its load carry
C3_Witness ==
    /\ resp.op = "issue" /\ resp.code = 200
    /\ stale.minted # {}
    /\ stale.minted \subseteq resp.created

\* C4 as stated: after a delete has answered 200, an approve can answer 200
\* and leave records persisted under an identifier that no persisted record
\* carries any more.
C4_ApproveRevives ==
    (resp.op = "delete" /\ resp.code = 200) =>
        \E id \in Identifiers :
            /\ MatchingIndices(Rows, id) = {}
            /\ ENABLED (/\ \E approvedBy \in Approvers, signature \in Signatures :
                              PostApprove(id, approvedBy, signature, "ok")
                        /\ resp'.code = 200)

\* C4 amended: approve runs from its load to its save without an await, so
\* an approve step leaves the sequence of persisted Component IDs as it is;
\* and whatever the step, a Component ID that appears in the persisted
\* collection is newly minted by the step or comes from the snapshot of a
\* handler that was suspended at an upload.
C4_OnlySuspendedRevive ==
    [][/\ resp'.op = "approve" =>
              /\ Len(file'.rows) = Len(Rows)
              /\ \A i \in 1..Len(Rows) : file'.rows[i].ComponentID = Rows[i].ComponentID
       /\ \A item \in RowSet(file') :
              \/ item.ComponentID \in ComponentIds(Rows)
              \/ item.ComponentID \in resp'.created
              \/ \E p \in Procs : /\ proc[p].pc = "mv"
                                  /\ proc'[p].pc = "idle"
                                  /\ item.ComponentID \in ComponentIds(proc[p].base)]_vars

\* a submit-issue that was suspended at an upload has put back records that
\* were removed from the persisted collection after its load
C4_Witness ==
    /\ resp.op = "issue" /\ resp.code = 200
    /\ stale.revived # {}
    /\ stale.revived \subseteq ComponentIds(Rows)

C6_NoStatusGuard ==
    [][\A id \in Identifiers :
          (\E i \in 1..Len(Rows) : Matches(Rows[i], id)) =>
              /\ (/\ resp'.op = "approve"
                  /\ \E approvedBy \in Approvers, signature \in Signatures :
                         PostApprove(id, approvedBy, signature, "ok"))
                 => /\ resp'.code = 200
                    /\ \A i \in 1..Len(Rows) :
                           Matches(Rows[i], id) => file'.rows[i].Status = "Approved"
              /\ (/\ resp'.op = "reject"
                  /\ \E rejectionReason \in Reasons :
                         PostReject(id, rejectionReason, "ok"))
                 => /\ resp'.code = 200
                    /\ \A i \in 1..Len(Rows) :
                           Matches(Rows[i], id) => file'.rows[i].Status = "Rejected"]_vars

\* a reject has overwritten the Status of an approved record
C6_Witness ==
    /\ resp.op = "reject" /\ resp.code = 200
    /\ \E i \in 1..Len(Rows) :
           Rows[i].Status = "Rejected" /\ Rows[i].ApprovedBy # ""

\* C7: the records that a submit-issue, a submit-storage or an update
\* persists as new have Status Pending.
C7_CreatedPending ==
    (resp.op \in {"issue", "storage", "update"} /\ resp.code = 200) =>
        /\ resp.count <= Len(Rows)
        /\ \A i \in 1..Len(Rows) :
               i > Len(Rows) - resp.count =>
                   /\ Rows[i].Status = "Pending"
                   /\ Rows[i].ComponentID \in resp.created

\* an update has put a new record behind a record that is Approved or
\* Rejected
C7_Witness ==
    /\ resp.op = "update" /\ resp.code = 200 /\ resp.count = 1
    /\ Len(Rows) = 2
    /\ Terminal(Rows[1].Status)
    /\ Rows[2].Status = "Pending"

\* C8: approve(id) with a matching record sets Status Approved and the
\* approval stamp on every record matching id, keeps every other record and
\* the number and order of the records, and reports the number of matches.
C8_ApproveFrame ==
    [][\A id \in Identifiers, approvedBy \in Approvers, signature \in Signatures :
          (/\ \E i \in 1..Len(Rows) : Matches(Rows[i], id)
           /\ resp'.op = "approve"
           /\ PostApprove(id, approvedBy, signature, "ok"))
          => /\ Len(file'.rows) = Len(Rows)
             /\ \A i \in 1..Len(Rows) :
                    IF Matches(Rows[i], id)
                    THEN /\ file'.rows[i].Status = "Approved"
                         /\ file'.rows[i].ApprovedBy = approvedBy
                         /\ file'.rows[i].ApprovalDate = Today
                         /\ file'.rows[i].ApprovalSignature = signature
                         /\ file'.rows[i].ComponentID = Rows[i].ComponentID
                         /\ TxKey(file'.rows[i]) = TxKey(Rows[i])
                         /\ file'.rows[i].RejectionReason = Rows[i].RejectionReason
                    ELSE file'.rows[i] = Rows[i]
             /\ resp'.code = 200
             /\ resp'.count = Cardinality({i \in 1..Len(Rows) : Matches(Rows[i], id)})]_vars

\* a batch of two under one Issue No, approved by its Issue No
C8_Witness ==
    /\ resp.op = "approve" /\ resp.code = 200 /\ resp.count = 2
    /\ Len(Rows) = 2
    /\ \A i \in 1..2 : Rows[i].Status = "Approved" /\ Rows[i].IssueNo = KeyA

\* C9: reject(id, reason) with a matching record sets Status Rejected and
\* the rejection stamp on every record matching id, keeps every other record
\* and the number and order of the records, and reports the number of matches.
C9_RejectFrame ==
    [][\A id \in Identifiers, rejectionReason \in Reasons :
          (/\ \E i \in 1..Len(Rows) : Matches(Rows[i], id)
           /\ resp'.op = "reject"
           /\ PostReject(id, rejectionReason, "ok"))
          => /\ Len(file'.rows) = Len(Rows)
             /\ \A i \in 1..Len(Rows) :
                    IF Matches(Rows[i], id)
                    THEN /\ file'.rows[i].Status = "Rejected"
                         /\ file'.rows[i].RejectionReason = rejectionReason
                         /\ file'.rows[i].RejectionDate = Today
                         /\ file'.rows[i].ComponentID = Rows[i].ComponentID
                         /\ TxKey(file'.rows[i]) = TxKey(Rows[i])
                         /\ file'.rows[i].ApprovedBy = Rows[i].ApprovedBy
                    ELSE file'.rows[i] = Rows[i]
             /\ resp'.code = 200
             /\ resp'.count = Cardinality({i \in 1..Len(Rows) : Matches(Rows[i], id)})]_vars

\* one of two records rejected, the other kept as it was
C9_Witness ==
    /\ resp.op = "reject" /\ resp.code = 200 /\ resp.count = 1
    /\ Len(Rows) = 2
    /\ \E i, j \in 1..2 : /\ i # j
                          /\ Rows[i].Status = "Pending" /\ Rows[i].RejectionReason = ""
                          /\ Rows[j].Status = "Rejected" /\ Rows[j].RejectionReason # ""

\* C10: delete(id) with id the Component ID of a record removes exactly that
\* record; delete(id) with id a transaction key removes every record of that
\* transaction.
C10_DeleteScoping ==
    [][\A id \in Identifiers :
          DeleteComponent(id, "ok") =>
              /\ (\E i \in 1..Len(Rows) : Rows[i].ComponentID = id) =>
                     /\ Len(file'.rows) = Len(Rows) - 1
                     /\ \A i \in 1..Len(Rows) :
                            Rows[i].ComponentID # id => Rows[i] \in RowSet(file')
              /\ (\E i \in 1..Len(Rows) : TxKey(Rows[i]) = id) =>
                     \A j \in 1..Len(file'.rows) : TxKey(file'.rows[j]) # id]_vars

\* C11: approve, reject or delete with an identifier that matches no record
\* answers 404 and leaves the persisted records as they were; nothing is
\* saved (a missing file is created empty by the load).
C11_NotFoundUnchanged ==
    [][\A id \in Identifiers :
          MatchingIndices(LoadExcelSync(file), id) = {} =>
              \A wr \in WriteOutcomes :
                  (\/ \E approvedBy \in Approvers, signature \in Signatures :
                         PostApprove(id, approvedBy, signature, wr)
                   \/ \E rejectionReason \in Reasons : PostReject(id, rejectionReason, wr)
                   \/ DeleteComponent(id, wr))
                  => /\ resp'.code = 404
                     /\ resp'.op \in {"approve", "reject", "delete"}
                     /\ file' = FileAfterLoad(file)
                     /\ file'.rows = Rows
                     /\ everIds' = everIds]_vars

\* an approve answered 404 on a collection of two or more records
C11_Witness ==
    /\ resp.op = "approve" /\ resp.code = 404
    /\ Len(Rows) >= 2

\* the records of data that identifier does not name
Others(data, identifier) ==
    SelectSeq(data, LAMBDA item : /\ item.IssueNo # identifier
                                  /\ item.StorageNo # identifier
                                  /\ item.ComponentID # identifier)

\* C12: an update keeps the records that its identifier does not match, in
\* their order, and appends the batch numbered from the largest suffix of
\* those kept records: the m-th new record has that suffix + m.
C12_UpdateRenumbers ==
    [][(resp'.op = "update" /\ resp'.code = 200 /\ updateId' # NULL) =>
          LET kept == Others(LoadExcelSync(file), updateId')
              k == resp'.count
          IN  /\ Len(file'.rows) = Len(kept) + k
              /\ SubSeq(file'.rows, 1, Len(kept)) = kept
              /\ \A m \in 1..k :
                     /\ Suffix(file'.rows[Len(kept) + m]) = MaxSuffix(kept) + m
                     /\ file'.rows[Len(kept) + m].ComponentID \in resp'.created
              /\ Cardinality(resp'.created) = k
              /\ resp'.removed = Len(LoadExcelSync(file)) - Len(kept)]_vars

\* a transaction of two records updated with a batch of two: the two new
\* records are numbered from 1, not from 3
C12_Witness ==
    /\ resp.op = "update" /\ resp.code = 200
    /\ resp.removed = 2 /\ resp.count = 2
    /\ Len(Rows) = 2
    /\ \A m \in 1..2 : Suffix(Rows[m]) = m

\* the records of data that identifier names
Named(data, identifier) ==
    SelectSeq(data, LAMBDA item : \/ item.IssueNo = identifier
                                  \/ item.StorageNo = identifier
                                  \/ item.ComponentID = identifier)

\* the records a successful update step has appended
Appended == SubSeq(file'.rows, Len(file'.rows) - resp'.count + 1, Len(file'.rows))

\* C13: after a successful update none of the Component IDs of the records
\* that the update removed is the Component ID of a persisted record.
C13_OldIdsDiscarded ==
    [][(resp'.op = "update" /\ resp'.code = 200 /\ updateId' # NULL) =>
          ComponentIds(Named(LoadExcelSync(file), updateId'))
              \cap ComponentIds(file'.rows) = {}]_vars

\* C14: every record that a successful update creates carries the
\* transaction key of the records that the update removed.
C14_UpdateKeepsKey ==
    [][(resp'.op = "update" /\ resp'.code = 200 /\ updateId' # NULL) =>
          LET old == Named(LoadExcelSync(file), updateId')
          IN  \A i \in 1..Len(old), j \in 1..Len(Appended) :
                  TxKey(Appended[j]) = TxKey(old[i])]_vars

\* C15: a submit-issue or a submit-storage with no line item answers 400 and
\* saves nothing: the persisted records are as before.
C15_EmptyBatchRejected ==
    [][\A key \in {KeyA, KeyCmp} :
          (\/ \E p \in Procs : PostIssue(p, key, <<>>, "ok")
           \/ PostStorage(key, <<>>, "ok"))
          => /\ resp'.code = 400
             /\ resp'.op \in {"issue", "storage"}
             /\ file' = FileAfterLoad(file)
             /\ file'.rows = Rows
             /\ everIds' = everIds]_vars

\* a submit-issue answered 400 on a collection that holds records
C15_Witness ==
    /\ resp.op = "issue" /\ resp.code = 400
    /\ Len(Rows) >= 1

\* C16: an update with a form that carries no line item is rejected before
\* any mutation: it answers 400 and the persisted records, those matching
\* its identifier among them, are as before.
C16_EmptyUpdateRejected ==
    [][\A id \in Identifiers, kind \in {"issue", "storage"} :
          (/\ Named(LoadExcelSync(file), id) # <<>>
           /\ \E p \in Procs : PutComponent(p, id, kind, KeyA, <<>>, "ok"))
          => /\ resp'.code = 400
             /\ file'.rows = Rows]_vars

\* C17: every persisted record has exactly one of Issue No and Storage No:
\* Issue No when its Type is 'Issued Component', Storage No when its Type is
\* 'Stored Component'.
C17_OneTransaction ==
    \A i \in 1..Len(Rows) :
        /\ Truthy(Rows[i].IssueNo) # Truthy(Rows[i].StorageNo)
        /\ Rows[i].Type = "Issued Component" => Truthy(Rows[i].IssueNo)
        /\ Rows[i].Type = "Stored Component" => Truthy(Rows[i].StorageNo)

\* the transaction keys of the Pending records of data
PendingKeys(data) ==
    {TxKey(data[i]) : i \in {j \in 1..Len(data) : data[j].Status = "Pending"}} \ {NULL}

\* C18: the pending list has exactly one entry for each transaction key that
\* a Pending record carries, and no other entry.
C18_OneEntryPerPendingKey ==
    resp.op = "pending" =>
        /\ {TxKey(resp.groups[j]) : j \in 1..Len(resp.groups)} = PendingKeys(LoadExcelSync(file))
        /\ Len(resp.groups) = Cardinality(PendingKeys(LoadExcelSync(file)))

\* C19: when the records read back after the write are not as many as the
\* records written, the save reports failure and the operation answers 500.
C19_ReadBackVerified ==
    [][\A id \in Identifiers :
          LET currentData == LoadExcelSync(file)
          IN  /\ (/\ \E approvedBy \in Approvers, signature \in Signatures :
                         PostApprove(id, approvedBy, signature, "short")
                   /\ Len(VerifyData(file, currentData, "short")) # Len(currentData))
                  => resp'.code = 500
              /\ (/\ DeleteComponent(id, "short")
                   /\ Len(VerifyData(file, Others(currentData, id), "short"))
                          # Len(Others(currentData, id)))
                  => resp'.code = 500]_vars

\* the step is a request whose xlsx.writeFile threw, by the route that answers
WriteFailed ==
    \/ /\ resp'.op = "approve"
       /\ \E id \in Identifiers, approvedBy \in Approvers, signature \in Signatures :
              PostApprove(id, approvedBy, signature, "fail")
    \/ /\ resp'.op = "reject"
       /\ \E id \in Identifiers, rejectionReason \in Reasons :
              PostReject(id, rejectionReason, "fail")
    \/ /\ resp'.op = "delete"
       /\ \E id \in Identifiers : DeleteComponent(id, "fail")
    \/ /\ resp'.op = "update"
       /\ \E id \in Identifiers, p \in Procs, kind \in {"issue", "storage"},
             components \in PlainBatches(MaxFaultBatch) :
              PutComponent(p, id, kind, KeyA, components, "fail")
    \/ /\ resp'.op = "issue"
       /\ \E p \in Procs, components \in PlainBatches(MaxFaultBatch) :
              PostIssue(p, KeyA, components, "fail")
    \/ /\ resp'.op = "storage"
       /\ \E components \in PlainBatches(MaxFaultBatch) :
              PostStorage(KeyA, components, "fail")

C21_AttachmentFailureAborts ==
    [][\A p \in Procs, op \in {"issue", "update"} :
          AfterMv(p, op, FALSE, "ok") =>
              /\ resp'.op = op
              /\ resp'.code = 500
              /\ resp'.count = 0
              /\ file' = file
              /\ file'.rows = Rows
              /\ proc'[p] = IdleProc]_vars

\* an update answered 500 after its upload failed, the collection full
C21_Witness ==
    /\ resp.op = "update" /\ resp.code = 500
    /\ Len(Rows) = MaxConcRecords
    /\ \A p \in Procs : proc[p].pc = "idle"

\* the file after loadExcelSync() and saveToExcelSync of what it returned
Resaved == FileAfterSave(file, LoadExcelSync(file), "ok")

C23_SubmitAppends ==
    [][(resp'.code = 200 /\ resp'.op \in {"issue", "storage"}) =>
          LET k == resp'.count
              n == Len(Rows)
          IN  /\ \A components \in PlainBatches(MaxBatch) :
                     (\/ \E p \in Procs, issueNo \in SeqIn.issueNos :
                             PostIssue(p, issueNo, components, "ok")
                      \/ \E storageNo \in SeqIn.storageNos :
                             PostStorage(storageNo, components, "ok"))
                         => k = Len(components)
              /\ k >= 1
              /\ Len(file'.rows) = n + k
              /\ SubSeq(file'.rows, 1, n) = Rows
              /\ \A m \in 1..k :
                     /\ file'.rows[n + m].ComponentID \in resp'.created
                     /\ file'.rows[n + m].ComponentID \notin ComponentIds(Rows)
                     /\ file'.rows[n + m].Status = "Pending"
              /\ Cardinality(resp'.created) = k]_vars

\* a submit-storage of one line item appended behind an approved record
C23_Witness ==
    /\ resp.op = "storage" /\ resp.code = 200 /\ resp.count = 1
    /\ Len(Rows) = 2
    /\ Rows[1].Status = "Approved"
    /\ Rows[2].ComponentID \in resp.created

\* C24: for the records of the file, generateComponentId returns "CMP-"
\* followed by the decimal digits of (largest numeric suffix among the
\* Component IDs, absent and non-matching ones counting 0) + 1, padded
\* with zeros to three digits and never shortened; for no records it is
\* CMP-001; and no record carries the identifier it returns.
C24_GeneratorValue ==
    LET data == LoadExcelSync(file)
        id == GenerateComponentId(data)
        digits == SubSeq(id, 5, Len(id))
        n == ParseInt(digits)
    IN  /\ SubSeq(id, 1, 4) = CmpPrefix
        /\ \A i \in 1..Len(digits) : IsDigit(digits[i])
        /\ Len(digits) >= 3
        /\ Len(digits) > 3 => digits[1] # "0"
        /\ \A k \in 1..Len(data) : Suffix(data[k]) < n
        /\ n = 1 \/ \E k \in 1..Len(data) : Suffix(data[k]) = n - 1
        /\ n = MaxSuffix(data) + 1
        /\ \A k \in 1..Len(data) :
               data[k].ComponentID \in {NULL, KeyA, LowerCmp5} => Suffix(data[k]) = 0
        /\ data = <<>> => id = KeyCmp
        /\ id \notin ComponentIds(data)

\* a submit on a record without Component ID and a record CMP-999: the
\* generator returned CMP-1000
C24_Witness ==
    /\ resp.op = "storage" /\ resp.code = 200
    /\ resp.created = {Cmp1000}
    /\ Len(Rows) = 3
    /\ Rows[1].ComponentID = NULL
    /\ Rows[2].ComponentID = Cmp999
    /\ Rows[3].ComponentID = Cmp1000

C26_DeleteComplement ==
    [][\A id \in Identifiers :
          (resp'.op = "delete" /\ resp'.code = 200 /\ DeleteComponent(id, "ok")) =>
              /\ file'.rows = Others(Rows, id)
              /\ resp'.count = Len(Rows) - Len(file'.rows)
              /\ resp'.count = Cardinality({i \in 1..Len(Rows) :
                                               \/ Rows[i].IssueNo = id
                                               \/ Rows[i].StorageNo = id
                                               \/ Rows[i].ComponentID = id})
              /\ resp'.count >= 1]_vars

\* a delete removed one record and kept one, which is not the first of
\* the collection as it grew
C26_Witness ==
    /\ resp.op = "delete" /\ resp.code = 200 /\ resp.count = 1
    /\ Len(Rows) = 1
    /\ Suffix(Rows[1]) >= 2

\* the pending list of data has an entry for the transaction key
Listed(data, key) ==
    \E j \in 1..Len(PendingRequests(data)) : TxKey(PendingRequests(data)[j]) = key

\* C27: every entry of the pending list is the first record, in collection
\* order, among the Pending records with the entry's transaction key (the
\* Issue No if the record has one, else the Storage No); and a key that is
\* listed is still listed after an approve or a reject that leaves one of
\* its records Pending.
C27_PendingEntryIsFirst ==
    [][/\ resp'.op = "pending" =>
              \A j \in 1..Len(resp'.groups) :
                  LET data == LoadExcelSync(file)
                      entry == resp'.groups[j]
                      carries(i) == /\ data[i].Status = "Pending"
                                    /\ TxKey(data[i]) = TxKey(entry)
                  IN  \E i \in 1..Len(data) :
                          /\ carries(i)
                          /\ data[i] = entry
                          /\ \A h \in 1..(i - 1) : ~carries(h)
       /\ (resp'.op \in {"approve", "reject"} /\ resp'.code = 200) =>
              \A key \in FormIn.issueNos \cup FormIn.storageNos :
                  (/\ Listed(LoadExcelSync(file), key)
                   /\ \E i \in 1..Len(file'.rows) :
                          /\ file'.rows[i].Status = "Pending"
                          /\ TxKey(file'.rows[i]) = key)
                      => Listed(LoadExcelSync(file'), key)]_vars

\* two records under one key, the first approved by its Component ID: the
\* list shows the key with a copy of the second record
C27_Witness ==
    /\ resp.op = "pending"
    /\ Len(Rows) = 2
    /\ TxKey(Rows[1]) = KeyA /\ TxKey(Rows[2]) = KeyA
    /\ Rows[1].Status = "Approved"
    /\ Rows[2].Status = "Pending"
    /\ resp.groups = <<Rows[2]>>

\* C28: get-component(id) answers with the first record, in collection
\* order, whose Issue No, Storage No or Component ID is id, answers 404
\* when no record has id in one of the three, and leaves the persisted
\* records as they are.
C28_GetComponent ==
    [][\A id \in Identifiers :
          GetComponent(id) =>
              LET data == LoadExcelSync(file)
                  named(i) == \/ data[i].IssueNo = id
                              \/ data[i].StorageNo = id
                              \/ data[i].ComponentID = id
              IN  /\ file'.rows = Rows
                  /\ everIds' = everIds
                  /\ resp'.op = "get"
                  /\ (\A i \in 1..Len(data) : ~named(i)) =>
                         resp'.code = 404 /\ resp'.groups = <<>>
                  /\ \A i \in 1..Len(data) :
                         (named(i) /\ \A h \in 1..(i - 1) : ~named(h)) =>
                             resp'.code = 200 /\ resp'.groups = <<data[i]>>]_vars

\* a lookup answered with the first of two records under one key
C28_Witness ==
    /\ resp.op = "get" /\ resp.code = 200
    /\ Len(Rows) = 2
    /\ TxKey(Rows[1]) = KeyA /\ TxKey(Rows[2]) = KeyA
    /\ Rows[1] # Rows[2]
    /\ resp.groups = <<Rows[1]>>

\* C29: while inventory.xlsx is missing the load returns no records and
\* creates the file with none, whatever the request is: approve, reject
\* and delete find nothing, and a submit that is the first operation
\* numbers its batch from CMP-001 and persists that batch alone.
C29_MissingFileLoad ==
    [][~file.exists =>
          /\ LoadExcelSync(file) = <<>>
          /\ file'.exists /\ file'.parses
          /\ resp'.code # 200 => file'.rows = <<>>
          /\ resp'.op \in {"approve", "reject", "delete"} => resp'.code = 404
          /\ (resp'.op \in {"issue", "storage"} /\ resp'.code = 200) =>
                 /\ Len(file'.rows) = resp'.count
                 /\ file'.rows[1].ComponentID = KeyCmp
                 /\ \A m \in 1..Len(file'.rows) : Suffix(file'.rows[m]) = m]_vars

\* the first record ever persisted, CMP-001, stored by a submit
C29_Witness ==
    /\ file.exists
    /\ resp.op = "storage" /\ resp.code = 200
    /\ resp.created = {KeyCmp}
    /\ everIds = {KeyCmp}
    /\ Len(Rows) = 1 /\ Rows[1].ComponentID = KeyCmp

\* C30: while inventory.xlsx exists and cannot be parsed, the load returns
\* no records and no request answers 500 for it: approve, reject and
\* delete answer 404 and leave the file alone, and a submit of a batch
\* answers 200 and leaves a readable file that holds that batch only,
\* numbered from CMP-001.
C30_LossyRecovery ==
    [][(file.exists /\ ~file.parses /\ resp'.op # "none") =>
          /\ LoadExcelSync(file) = <<>>
          /\ resp'.code # 500
          /\ resp'.op \in {"approve", "reject", "delete"} =>
                 resp'.code = 404 /\ file' = file
          /\ resp'.op \in {"issue", "storage"} =>
                 /\ resp'.code = 200 \/ (resp'.code = 400 /\ file' = file)
                 /\ resp'.code = 200 =>
                        /\ file'.parses
                        /\ resp'.count >= 1
                        /\ Len(file'.rows) = resp'.count
                        /\ ComponentIds(file'.rows) = resp'.created
                        /\ \A m \in 1..Len(file'.rows) :
                               /\ Suffix(file'.rows[m]) = m
                               /\ file'.rows[m].Status = "Pending"]_vars

\* a delete answered 404 on a damaged file that holds records carrying
\* every identifier a request can name
C30_Witness ==
    /\ file.exists /\ ~file.parses
    /\ resp.op = "delete" /\ resp.code = 404
    /\ \A id \in Identifiers :
           \E i \in 1..Len(Rows) :
               Rows[i].IssueNo = id \/ Rows[i].StorageNo = id \/ Rows[i].ComponentID = id

\* C31: an update whose identifier names no record never answers 404; with
\* a form of line items it answers 200, reports the number of line items,
\* and the file afterwards is the records from before, unchanged and in
\* their order, followed by the batch as Pending records under the key of
\* the form, numbered on from the largest suffix.
C31_UpdateNoMatchAppends ==
    [][(/\ resp'.op = "update"
        /\ updateId' # NULL
        /\ Named(LoadExcelSync(file), updateId') = <<>>) =>
          /\ resp'.code # 404
          /\ \A kind \in {"issue", "storage"}, key \in SeqIn.issueNos \cup SeqIn.storageNos,
                components \in PlainBatches(MaxBatch) :
                 (\E p \in Procs : PutComponent(p, updateId', kind, key, components, "ok")) =>
                     LET n == Len(Rows)
                         k == Len(components)
                     IN  /\ resp'.code = 200
                         /\ resp'.count = k
                         /\ resp'.removed = 0
                         /\ Len(file'.rows) = n + k
                         /\ SubSeq(file'.rows, 1, n) = Rows
                         /\ \A m \in 1..k :
                                /\ file'.rows[n + m].Status = "Pending"
                                /\ TxKey(file'.rows[n + m]) = key
                                /\ Suffix(file'.rows[n + m]) = MaxSuffix(Rows) + m]_vars

\* an update named CMP-002 while the collection held CMP-001 alone, an
\* approved record: nothing was removed and the line item was appended
C31_Witness ==
    /\ resp.op = "update" /\ resp.code = 200 /\ resp.count = 1 /\ resp.removed = 0
    /\ updateId = Cmp2
    /\ Len(Rows) = 2
    /\ Rows[1].ComponentID = KeyCmp /\ Rows[1].Status = "Approved"
    /\ TxKey(Rows[1]) = KeyA
    /\ Rows[2].Status = "Pending"

\* C32: a persisted record whose Status is Pending has no Approved By, no
\* Approval Date, no Approval Signature, no Rejection Reason and no
\* Rejection Date; the same holds for the records a suspended handler
\* holds to save later.
C32_PendingUnstamped ==
    LET unstamped(item) ==
            item.Status = "Pending" =>
                /\ item.ApprovedBy = ""
                /\ item.ApprovalDate = ""
                /\ item.ApprovalSignature = ""
                /\ item.RejectionReason = ""
                /\ item.RejectionDate = ""
    IN  /\ \A i \in 1..Len(Rows) : unstamped(Rows[i])
        /\ \A p \in Procs :
               /\ \A i \in 1..Len(proc[p].base) : unstamped(proc[p].base[i])
               /\ \A i \in 1..Len(proc[p].newItems) : unstamped(proc[p].newItems[i])

\* an approved record and a Pending one persisted while a handler waits
\* for its upload
C32_Witness ==
    /\ Len(Rows) = 2
    /\ Rows[1].Status = "Approved" /\ Rows[1].ApprovedBy # ""
    /\ Rows[2].Status = "Pending"
    /\ \E p \in Procs : proc[p].pc = "mv"

\* C33: the audit fields of every persisted record agree with its Status:
\* an Approved record has Approved By, Approval Date and Approval Signature
\* and neither Rejection Reason nor Rejection Date; a Rejected record has
\* Rejection Reason and Rejection Date and none of the approval fields.
C33_AuditAgreesWithStatus ==
    \A i \in 1..Len(Rows) :
        /\ Rows[i].Status = "Approved" =>
               /\ Rows[i].ApprovedBy # ""
               /\ Rows[i].ApprovalDate # ""
               /\ Rows[i].ApprovalSignature # ""
               /\ Rows[i].RejectionReason = ""
               /\ Rows[i].RejectionDate = ""
        /\ Rows[i].Status = "Rejected" =>
               /\ Rows[i].RejectionReason # ""
               /\ Rows[i].RejectionDate # ""
               /\ Rows[i].ApprovedBy = ""
               /\ Rows[i].ApprovalDate = ""
               /\ Rows[i].ApprovalSignature = ""

\* C34: submit-storage, approve, reject and delete run from their load to
\* their save in one step, whatever other handlers are waiting for: they
\* are never suspended, and they work on the records persisted at that
\* step.  So a submit-storage keeps every persisted record and mints only
\* identifiers that no persisted record carries, counting on from the
\* largest persisted suffix; approve and reject keep every record in its
\* place; delete only removes records.
C34_AtomicHandlers ==
    [][resp'.op \in {"storage", "approve", "reject", "delete"} =>
          /\ proc' = proc
          /\ stale' = NoStale
          /\ (resp'.op = "storage" /\ resp'.code = 200) =>
                 LET n == Len(Rows)
                     k == resp'.count
                 IN  /\ Len(file'.rows) = n + k
                     /\ SubSeq(file'.rows, 1, n) = Rows
                     /\ \A m \in 1..k :
                            /\ file'.rows[n + m].ComponentID \notin ComponentIds(Rows)
                            /\ Suffix(file'.rows[n + m]) = MaxSuffix(Rows) + m
                     /\ \A l, m \in (n + 1)..(n + k) :
                            l # m => file'.rows[l].ComponentID # file'.rows[m].ComponentID
          /\ resp'.op \in {"approve", "reject"} =>
                 /\ Len(file'.rows) = Len(Rows)
                 /\ \A i \in 1..Len(Rows) :
                        /\ file'.rows[i].ComponentID = Rows[i].ComponentID
                        /\ TxKey(file'.rows[i]) = TxKey(Rows[i])
          /\ resp'.op = "delete" =>
                 \E id \in Identifiers :
                     file'.rows \in {Rows, Others(Rows, id)}]_vars

\* a submit-storage was served while a handler waited for its upload, and
\* its record stands behind the record persisted before
C34_Witness ==
    /\ resp.op = "storage" /\ resp.code = 200 /\ resp.count = 1
    /\ \E p \in Procs : proc[p].pc = "mv" /\ proc[p].base = <<>>
    /\ Len(Rows) = 2
    /\ Rows[2].ComponentID \in resp.created
    /\ Rows[1].ComponentID # Rows[2].ComponentID

\* C35: a record that is Approved stays Approved through every step that
\* does not target it: a submit, whether it began before or after the
\* approval, and an update whose identifier does not name the record.
C35_ApprovalNotUndone ==
    [][(\/ resp'.op \in {"issue", "storage"}
        \/ resp'.op = "update" /\ updateId' # NULL) =>
          \A i \in 1..Len(Rows) :
              (/\ Rows[i].Status = "Approved"
               /\ resp'.op = "update" => Named(<<Rows[i]>>, updateId') = <<>>)
                  => \E j \in 1..Len(file'.rows) :
                         /\ file'.rows[j].ComponentID = Rows[i].ComponentID
                         /\ file'.rows[j].Status = "Approved"]_vars

\* C36: no successful submission is lost: a submit step after which no
\* request is in flight leaves every record that was persisted before it
\* in the file (a submit names no record to remove; only the Status and the
\* audit fields of a record are left aside here).
C36_NoSubmissionLost ==
    [][(/\ resp'.op \in {"issue", "storage"}
        /\ \A p \in Procs : proc'[p].pc = "idle") =>
          \A i \in 1..Len(Rows) :
              \E j \in 1..Len(file'.rows) :
                  /\ file'.rows[j].ComponentID = Rows[i].ComponentID
                  /\ file'.rows[j].Type = Rows[i].Type
                  /\ file'.rows[j].PartNo = Rows[i].PartNo
                  /\ TxKey(file'.rows[j]) = TxKey(Rows[i])]_vars

\* the Pending records of data of one type under one number
PendingOf(data, type, key) ==
    {i \in 1..Len(data) : /\ data[i].Status = "Pending"
                          /\ data[i].Type = type
                          /\ TxKey(data[i]) = key}

\* the number has a Pending issue record and a Pending storage record
BothKinds(data, key) ==
    /\ PendingOf(data, "Issued Component", key) # {}
    /\ PendingOf(data, "Stored Component", key) # {}

\* C37 as stated: an issue transaction and a storage transaction that are
\* Pending under the same number are two entries of the pending list, one
\* of each kind.
C37_TwoEntriesPerNumber ==
    resp.op = "pending" =>
        \A key \in FormIn.issueNos \cap FormIn.storageNos :
            (Truthy(key) /\ BothKinds(LoadExcelSync(file), key)) =>
                \E j, l \in 1..Len(resp.groups) :
                    /\ TxKey(resp.groups[j]) = key
                    /\ TxKey(resp.groups[l]) = key
                    /\ resp.groups[j].Type = "Issued Component"
                    /\ resp.groups[l].Type = "Stored Component"

\* C37 amended: the pending list is grouped by the number alone, the Issue
\* No if the record has one and else the Storage No: no two entries carry
\* the same number, there are at most as many entries as numbers with a
\* Pending record, and an issue transaction and a storage transaction that
\* are Pending under the same number share one entry, the first Pending
\* record with that number of either kind.
C37_OneEntryPerNumber ==
    resp.op = "pending" =>
        LET data == LoadExcelSync(file)
        IN  /\ \A j, l \in 1..Len(resp.groups) :
                   j # l => TxKey(resp.groups[j]) # TxKey(resp.groups[l])
            /\ Len(resp.groups) <= Cardinality(PendingKeys(data))
            /\ \A key \in FormIn.issueNos \cap FormIn.storageNos :
                   (Truthy(key) /\ BothKinds(data, key)) =>
                       /\ Cardinality({j \in 1..Len(resp.groups) :
                                          TxKey(resp.groups[j]) = key}) = 1
                       /\ \E j \in 1..Len(resp.groups), i \in 1..Len(data) :
                              /\ resp.groups[j] = data[i]
                              /\ TxKey(data[i]) = key
                              /\ data[i].Status = "Pending"
                              /\ \A h \in 1..(i - 1) :
                                     ~(data[h].Status = "Pending" /\ TxKey(data[h]) = key)

\* a storage record and an issue record Pending under the number A: the
\* list has one entry, the storage record, which stands first
C37_Witness ==
    /\ resp.op = "pending"
    /\ Len(Rows) = 2
    /\ Rows[1].Type = "Stored Component" /\ Rows[1].Status = "Pending"
    /\ Rows[2].Type = "Issued Component" /\ Rows[2].Status = "Pending"
    /\ TxKey(Rows[1]) = KeyA /\ TxKey(Rows[2]) = KeyA
    /\ resp.groups = <<Rows[1]>>

\* C38: a login answers 200 in a scope only with a username, compared
\* ignoring case, and a password for which registerUser was called in that
\* scope, and its role is that of the scope; calls in the other scope do
\* not count.  A signup step writes only the file of its own scope.
C38_ScopesSeparate ==
    /\ (auth.op = "login" /\ auth.code = 200) =>
           /\ <<auth.isAdmin, UsernameToLowerCase(auth.username), auth.password>>
                  \in attempts
           /\ auth.role = IF auth.isAdmin THEN "admin" ELSE "user"
    /\ \A isAdmin \in BOOLEAN :
           \A k \in 1..Len(users[isAdmin]) :
               /\ users[isAdmin][k].role = IF isAdmin THEN "admin" ELSE "user"
               /\ <<isAdmin, UsernameToLowerCase(users[isAdmin][k].username),
                    users[isAdmin][k].password>> \in attempts

\* an admin login was refused with the username and password of a user of
\* the user scope, while the admin scope has another user
C38_Witness ==
    /\ auth.op = "login" /\ auth.code = 401 /\ auth.isAdmin
    /\ FindUser(users[FALSE], auth.username, auth.password) # <<>>
    /\ UsernameExists(users[TRUE], auth.username)

\* C39: among the registrations that reported success no two are for the
\* same username, ignoring case, in the same scope; and each of them can
\* log in: its scope's file has a user with its username and password.
C39_OneSuccessPerUsername ==
    /\ \A i, j \in 1..Len(succeeded) :
           (/\ i # j
            /\ succeeded[i].isAdmin = succeeded[j].isAdmin)
               => UsernameToLowerCase(succeeded[i].username)
                      # UsernameToLowerCase(succeeded[j].username)
    /\ \A i \in 1..Len(succeeded) :
           FindUser(LoadUsers(succeeded[i].isAdmin), succeeded[i].username,
                    succeeded[i].password) # <<>>

====
